---- MODULE Spec2Model ----
(***************************************************************************)
(* The Bantu Africa social network (src/app.py): the relational tables,    *)
(* the request handlers that change them and the feed query, as a state    *)
(* machine.  Every handler is a pure operator from the database (and the   *)
(* request) to a result holding the database after the request and the     *)
(* response; the actions run the handlers one request at a time (SeqSpec,  *)
(* FormSpec, FeedSpec) or split at the point between a handler's reads and *)
(* its commit, where another worker's request can run (Spec, RegSpec).     *)
(***************************************************************************)
EXTENDS Integers, Sequences, FiniteSets, Bags, TLC

VARIABLES
    db,     \* the tables: users, posts, likes, comments, follows
    now,    \* the clock datetime.utcnow reads
    reqs,   \* per worker: the request it is in the middle of, or Idle
    ev,     \* the request that completed last and its response
    hist    \* the database before the last request, and the request before it

vars == <<db, now, reqs, ev, hist>>

(***************************************************************************)
(* Bounds of the model.                                                    *)
(***************************************************************************)
MaxUsers == 2      \* User rows
MaxPostId == 1     \* highest Post id handed out
MaxComments == 1   \* Comment rows
FeedBase == 9      \* Post rows the feed model starts from
FeedExtra == 2     \* Post rows the feed model adds
MaxPage == 2       \* highest page number asked of api_feed

(***************************************************************************)
(* Values.                                                                 *)
(***************************************************************************)
None == "<None>"                 \* Python None: a form field that is absent, SQL NULL
Anon == 0                        \* current_user of a request without a session
Workers == {1, 2}                \* the server's concurrent request workers
Usernames == {"admin", "bob"}
Emails == {"admin@bantu.africa", "b@x.com"}
Passwords == {"pw1", "pw2"}      \* confirm_password, for the password "pw1"
NoFile == << >>                  \* no file part in the request
\* uploaded file names, as their dot-separated parts
Files == {NoFile, <<"pic", "PNG">>, <<"notes", "txt">>}
Titles == {None, "", "hello"}    \* the title field: absent, sent empty, or sent
Contents == {"", "world"}        \* the content field: sent empty, or sent

\* str.lower on the extensions used here
lower(s) == CASE s = "PNG" -> "png" [] s = "JPG" -> "jpg" [] OTHER -> s

ALLOWED_EXTENSIONS == {"png", "jpg", "jpeg", "gif"}

\* '.' in filename and filename.rsplit('.', 1)[1].lower() in ALLOWED_EXTENSIONS
allowed_file(filename) ==
    /\ Len(filename) > 1
    /\ lower(filename[Len(filename)]) \in ALLOWED_EXTENSIONS

\* random_hex + f_ext: the stored name keeps the extension as uploaded
save_picture(file) ==
    IF Len(file) > 1 THEN <<"random_hex", file[Len(file)]>> ELSE <<"random_hex">>

\* Python truthiness of a string-or-None
Falsy(s) == s \in {None, ""}

per_page == 10

(***************************************************************************)
(* The tables.  A table without a uniqueness rule that matters here is a   *)
(* bag of rows (the row id is not modelled); posts keep their id, which    *)
(* Like and Comment rows refer to; users are a sequence, a user's id being *)
(* its position (no handler deletes a User row).                           *)
(***************************************************************************)
Row(x) == SetToBag({x})

UserIds(d) == 1..Len(d.users)

PostIds(d) == {p.id : p \in d.posts}

PostById(d, id) == CHOOSE p \in d.posts : p.id = id

Max(S) == CHOOSE x \in S : \A y \in S : y <= x

\* the id an INTEGER PRIMARY KEY column gets on insert: one more than the largest
NextPostId(d) == IF d.posts = {} THEN 1 ELSE Max(PostIds(d)) + 1

\* User.query.filter_by(username=username).first(): the id, or 0
UserByName(d, username) ==
    IF \E i \in UserIds(d) : d.users[i].username = username
    THEN CHOOSE i \in UserIds(d) : d.users[i].username = username
    ELSE 0

UserByEmail(d, email) ==
    IF \E i \in UserIds(d) : d.users[i].email = email
    THEN CHOOSE i \in UserIds(d) : d.users[i].email = email
    ELSE 0

\* the rows of bag B in set S, with their multiplicities
Restrict(B, S) == [r \in S |-> CopiesIn(r, B)]

\* Post.like_count / Post.comment_count: len() of the relationship
like_count(d, post_id) ==
    BagCardinality(Restrict(d.likes, {r \in BagToSet(d.likes) : r.post_id = post_id}))

comment_count(d, post_id) ==
    BagCardinality(Restrict(d.comments, {r \in BagToSet(d.comments) : r.post_id = post_id}))

LikeRow(u, post_id) == [user_id |-> u, post_id |-> post_id]
FollowRow(u, v) == [follower_id |-> u, followed_id |-> v]
CommentRow(u, post_id, content) == [user_id |-> u, post_id |-> post_id, content |-> content]

(***************************************************************************)
(* The constraints the database checks when a transaction commits.         *)
(***************************************************************************)
NoUniqueConstraint(table, row) == TRUE

\* db.UniqueConstraint(...): no row with these column values is in the table yet
UniqueConstraint(table, row) == ~BagIn(row, table)

NoUserConstraints(users, id, row) == TRUE

\* User: username and email are unique and NOT NULL (id: the row being written)
UserConstraints(users, id, row) ==
    /\ row.username # None
    /\ row.email # None
    /\ \A i \in 1..Len(users) :
          i # id => /\ users[i].username # row.username
                    /\ users[i].email # row.email

\* Post: title and content are NOT NULL
PostConstraints(row) == row.title # None /\ row.content # None

(***************************************************************************)
(* Results of a handler: the database after it and the response.           *)
(***************************************************************************)
Res(d, out) == [db |-> d, out |-> out, liked |-> FALSE, count |-> 0, items |-> << >>]

ResLike(d, liked, count) ==
    [db |-> d, out |-> "ok", liked |-> liked, count |-> count, items |-> << >>]

ResList(d, out, items) ==
    [db |-> d, out |-> out, liked |-> FALSE, count |-> 0, items |-> items]

(***************************************************************************)
(* register (lines 157-190).  The reads: the password comparison and the   *)
(* two lookups.  The write: the INSERT and commit, which the database      *)
(* refuses with an IntegrityError when a constraint fails.                 *)
(***************************************************************************)
register_read(d, u, username, email, password, confirm_password) ==
    IF u # Anon THEN "home"
    ELSE IF password # confirm_password THEN "password_mismatch"
    ELSE IF UserByName(d, username) # 0 THEN "username_exists"
    ELSE IF UserByEmail(d, email) # 0 THEN "email_exists"
    ELSE "proceed"

register_write(d, username, email) ==
    LET row == [username |-> username, email |-> email]
    IN IF UserConstraints(d.users, 0, row)
       THEN Res([d EXCEPT !.users = Append(@, row)], "created")
       ELSE Res(d, "IntegrityError")

register(d, u, username, email, password, confirm_password) ==
    LET r == register_read(d, u, username, email, password, confirm_password)
    IN IF r = "proceed" THEN register_write(d, username, email) ELSE Res(d, r)

(***************************************************************************)
(* update_profile (lines 247-266): the username is assigned as sent and    *)
(* committed; only the database checks it.                                 *)
(***************************************************************************)
update_profile(d, u, username) ==
    LET row == [d.users[u] EXCEPT !.username = username]
    IN IF UserConstraints(d.users, u, row)
       THEN Res([d EXCEPT !.users[u] = row], "updated")
       ELSE Res(d, "IntegrityError")

(***************************************************************************)
(* new_post (lines 268-293).                                               *)
(***************************************************************************)
new_post(d, u, title, content, file, t) ==
    IF Falsy(content) THEN Res(d, "empty_content")
    ELSE LET image == IF file # NoFile /\ allowed_file(file)
                      THEN save_picture(file) ELSE NoFile
             row == [id |-> NextPostId(d), user_id |-> u, title |-> title,
                     content |-> content, image |-> image, created_at |-> t]
         IN IF PostConstraints(row)
            THEN Res([d EXCEPT !.posts = @ \cup {row}], "created")
            ELSE Res(d, "IntegrityError")

(***************************************************************************)
(* delete_post (lines 301-312).  The read: get_or_404 and the owner test.  *)
(* The write: DELETE of the post by its id, and, by the relationships'     *)
(* cascade (lines 83-84), of the Like and Comment rows that refer to it.   *)
(***************************************************************************)
delete_post_read_any_user(d, u, post_id) ==
    IF post_id \notin PostIds(d) THEN "not_found"
    ELSE "proceed"

delete_post_read(d, u, post_id) ==
    IF post_id \notin PostIds(d) THEN "not_found"
    ELSE IF PostById(d, post_id).user_id # u THEN "forbidden"
    ELSE "proceed"

delete_post_write_no_cascade(d, post_id) ==
    Res([d EXCEPT !.posts = {p \in @ : p.id # post_id}], "deleted")

delete_post_write(d, post_id) ==
    Res([d EXCEPT
           !.posts = {p \in @ : p.id # post_id},
           !.likes = Restrict(@, {r \in BagToSet(@) : r.post_id # post_id}),
           !.comments = Restrict(@, {r \in BagToSet(@) : r.post_id # post_id})],
        "deleted")

delete_post(d, u, post_id) ==
    LET r == delete_post_read(d, u, post_id)
    IN IF r = "proceed" THEN delete_post_write(d, post_id) ELSE Res(d, r)

(***************************************************************************)
(* like_post (lines 314-328).  The read: get_or_404 and the lookup of the  *)
(* user's Like row.  The write: delete the row found, or insert one; the   *)
(* response counts the post's likes after the commit.                      *)
(***************************************************************************)
like_post_read(d, u, post_id) ==
    IF post_id \notin PostIds(d) THEN "not_found"
    ELSE IF BagIn(LikeRow(u, post_id), d.likes) THEN "found"
    ELSE "absent"

like_post_write_keeps_row(d, u, post_id, found) ==
    IF found
    THEN ResLike(d, FALSE, like_count(d, post_id))
    ELSE LET d2 == [d EXCEPT !.likes = @ (+) Row(LikeRow(u, post_id))]
         IN ResLike(d2, TRUE, like_count(d2, post_id))

like_post_write(d, u, post_id, found) ==
    IF found
    THEN LET d2 == [d EXCEPT !.likes = @ (-) Row(LikeRow(u, post_id))]
         IN ResLike(d2, FALSE, like_count(d2, post_id))
    ELSE IF UniqueConstraint(d.likes, LikeRow(u, post_id))
         THEN LET d2 == [d EXCEPT !.likes = @ (+) Row(LikeRow(u, post_id))]
              IN ResLike(d2, TRUE, like_count(d2, post_id))
         ELSE Res(d, "IntegrityError")

like_post(d, u, post_id) ==
    LET r == like_post_read(d, u, post_id)
    IN IF r \in {"found", "absent"}
       THEN like_post_write(d, u, post_id, r = "found")
       ELSE Res(d, r)

(***************************************************************************)
(* add_comment (lines 330-353).                                            *)
(***************************************************************************)
add_comment_read(d, u, post_id, content) ==
    IF post_id \notin PostIds(d) THEN "not_found"
    ELSE IF Falsy(content) THEN "empty_content"
    ELSE "proceed"

add_comment_write(d, u, post_id, content) ==
    LET d2 == [d EXCEPT !.comments = @ (+) Row(CommentRow(u, post_id, content))]
    IN [Res(d2, "ok") EXCEPT !.count = comment_count(d2, post_id)]

add_comment(d, u, post_id, content) ==
    LET r == add_comment_read(d, u, post_id, content)
    IN IF r = "proceed" THEN add_comment_write(d, u, post_id, content) ELSE Res(d, r)

(***************************************************************************)
(* follow_user (lines 355-372) and unfollow_user (lines 374-385).          *)
(***************************************************************************)
\* User.is_following
is_following(d, u, v) == BagIn(FollowRow(u, v), d.follows)

follow_user_read_no_self_test(d, u, username) ==
    LET user == UserByName(d, username)
    IN IF user = 0 THEN "not_found"
       ELSE IF is_following(d, u, user) THEN "already_following"
       ELSE "proceed"

follow_user_read(d, u, username) ==
    LET user == UserByName(d, username)
    IN IF user = 0 THEN "not_found"
       ELSE IF u = user THEN "self_follow"
       ELSE IF is_following(d, u, user) THEN "already_following"
       ELSE "proceed"

follow_user_write(d, u, user) ==
    IF UniqueConstraint(d.follows, FollowRow(u, user))
    THEN Res([d EXCEPT !.follows = @ (+) Row(FollowRow(u, user))], "followed")
    ELSE Res(d, "IntegrityError")

follow_user(d, u, username) ==
    LET r == follow_user_read(d, u, username)
    IN IF r = "proceed" THEN follow_user_write(d, u, UserByName(d, username))
       ELSE Res(d, r)

unfollow_user_read(d, u, username) ==
    LET user == UserByName(d, username)
    IN IF user = 0 THEN "not_found"
       ELSE IF BagIn(FollowRow(u, user), d.follows) THEN "found"
       ELSE "absent"

unfollow_user_write_keeps_row(d, u, user) == Res(d, "unfollowed")

unfollow_user_write(d, u, user) ==
    Res([d EXCEPT !.follows = @ (-) Row(FollowRow(u, user))], "unfollowed")

unfollow_user(d, u, username) ==
    LET r == unfollow_user_read(d, u, username)
    IN IF r = "found" THEN unfollow_user_write(d, u, UserByName(d, username))
       ELSE IF r = "absent" THEN Res(d, "redirect")
       ELSE Res(d, r)

(***************************************************************************)
(* home (lines 140-155) and api_feed (lines 402-438): the posts whose      *)
(* owner is in following_ids + [current_user.id], newest first.  The       *)
(* database chooses the order of posts with equal created_at; tie says     *)
(* whether it hands them out by ascending or by descending id.             *)
(***************************************************************************)
following_ids(d, u) == {r.followed_id : r \in {x \in BagToSet(d.follows) : x.follower_id = u}}

feed_ids_without_self(d, u) == following_ids(d, u)

feed_ids(d, u) == following_ids(d, u) \cup {u}

\* the rows of a set, in some order
RECURSIVE Rows(_)
Rows(S) == IF S = {} THEN << >> ELSE LET p == CHOOSE x \in S : TRUE IN <<p>> \o Rows(S \ {p})

Ids(rows) == [i \in 1..Len(rows) |-> rows[i].id]

\* ORDER BY created_at DESC, posts of one created_at in the order tie names
order_by_created_at_desc(S, tie) ==
    LET Before(p, q) == \/ p.created_at > q.created_at
                        \/ /\ p.created_at = q.created_at
                           /\ IF tie = "asc" THEN p.id < q.id ELSE p.id > q.id
    IN Ids(SortSeq(Rows(S), Before))

\* Post.query.filter(Post.user_id.in_(post_ids)).order_by(Post.created_at.desc())
feed_query(d, u, tie) ==
    order_by_created_at_desc({p \in d.posts : p.user_id \in feed_ids(d, u)}, tie)

home(d, u, tie) == ResList(d, "ok", feed_query(d, u, tie))

\* ceil(total / per_page)
pages(total) == (total + per_page - 1) \div per_page

\* paginate(page, per_page) of the rows all: a page below 1, or an empty page
\* other than the first, is a 404; count carries the number of pages
paginate(d, all, page) ==
    LET first == (page - 1) * per_page + 1
        last == IF page * per_page < Len(all) THEN page * per_page ELSE Len(all)
    IN IF page < 1 \/ (first > last /\ page # 1) THEN Res(d, "not_found")
       ELSE [ResList(d, "ok", SubSeq(all, first, last)) EXCEPT !.count = pages(Len(all))]

api_feed(d, u, page, tie) == paginate(d, feed_query(d, u, tie), page)

(***************************************************************************)
(* State: the initial database is the one initialize_database (lines       *)
(* 442-457) leaves: the tables created, and the admin user in them.        *)
(***************************************************************************)
EmptyDb == [users |-> << >>, posts |-> {}, likes |-> EmptyBag,
            comments |-> EmptyBag, follows |-> EmptyBag]

initialize_database ==
    [EmptyDb EXCEPT !.users = <<[username |-> "admin", email |-> "admin@bantu.africa"]>>]

Idle == [op |-> "idle", user |-> 0, post |-> 0, name |-> None, email |-> None,
         found |-> FALSE]

\* a completed request and its response.  name: the username or title sent;
\* arg: the email or content sent; match: password = confirm_password
NoEv == [op |-> "none", user |-> 0, post |-> 0, page |-> 0, name |-> None, arg |-> None,
         match |-> TRUE, out |-> "none", liked |-> FALSE, count |-> 0, items |-> << >>]

Event(op, u, post, name, arg, r) ==
    [NoEv EXCEPT !.op = op, !.user = u, !.post = post, !.name = name, !.arg = arg,
                 !.out = r.out, !.liked = r.liked, !.count = r.count, !.items = r.items]

NoHist == [pre |-> EmptyDb, prev |-> NoEv, pre2 |-> EmptyDb]

Init ==
    /\ db = initialize_database
    /\ now = 0
    /\ reqs = [w \in Workers |-> Idle]
    /\ ev = NoEv
    /\ hist = NoHist

\* the users a request can come from: every route but register is
\* @login_required, and register is also open to a request without a session
Sessions == UserIds(db)

(***************************************************************************)
(* A request served in one step, from the handler's first line to its      *)
(* response.  hist records the database the request started from and,      *)
(* when the last two requests are a like_post pair or a follow_user /      *)
(* unfollow_user pair by one user on one target, the first of the two and  *)
(* the database it started from.                                           *)
(***************************************************************************)
Pair(e1, e2) ==
    /\ e1.user = e2.user
    /\ \/ e1.op = "like_post" /\ e2.op = "like_post" /\ e1.post = e2.post
       \/ e1.op = "follow_user" /\ e2.op = "unfollow_user" /\ e1.name = e2.name

Served(e, r) ==
    /\ db' = r.db
    /\ ev' = e
    /\ hist' = IF Pair(ev, e)
               THEN [pre |-> db, prev |-> ev, pre2 |-> hist.pre]
               ELSE [pre |-> db, prev |-> NoEv, pre2 |-> EmptyDb]
    /\ UNCHANGED <<now, reqs>>

ReqRegister(sessions, usernames, emails) ==
    \E u \in sessions, username \in usernames, email \in emails,
       confirm_password \in Passwords :
        LET r == register(db, u, username, email, "pw1", confirm_password)
        IN /\ Len(db.users) < MaxUsers
           /\ Served([Event("register", u, 0, username, email, r)
                          EXCEPT !.match = (confirm_password = "pw1")], r)

ReqUpdateProfile(usernames) ==
    \E u \in Sessions, username \in usernames :
        LET r == update_profile(db, u, username)
        IN Served(Event("update_profile", u, 0, username, None, r), r)

ReqNewPost(titles, contents, files, maxId) ==
    \E u \in Sessions, title \in titles, content \in contents, file \in files :
        LET r == new_post(db, u, title, content, file, now)
        IN /\ NextPostId(db) <= maxId
           /\ Served(Event("new_post", u, NextPostId(db), title, content, r), r)

ReqDeletePost ==
    \E u \in Sessions, post_id \in 1..MaxPostId :
        LET r == delete_post(db, u, post_id)
        IN Served(Event("delete_post", u, post_id, None, None, r), r)

ReqLikePost ==
    \E u \in Sessions, post_id \in 1..MaxPostId :
        LET r == like_post(db, u, post_id)
        IN Served(Event("like_post", u, post_id, None, None, r), r)

ReqAddComment ==
    \E u \in Sessions, post_id \in 1..MaxPostId, content \in Contents :
        LET r == add_comment(db, u, post_id, content)
        IN /\ BagCardinality(db.comments) < MaxComments
           /\ Served(Event("add_comment", u, post_id, None, content, r), r)

ReqFollowUser ==
    \E u \in Sessions, username \in Usernames :
        LET r == follow_user(db, u, username)
        IN Served(Event("follow_user", u, 0, username, None, r), r)

ReqUnfollowUser ==
    \E u \in Sessions, username \in Usernames :
        LET r == unfollow_user(db, u, username)
        IN Served(Event("unfollow_user", u, 0, username, None, r), r)

ReqHome ==
    \E u \in Sessions, tie \in {"asc", "desc"} :
        LET r == home(db, u, tie)
        IN Served(Event("home", u, 0, None, None, r), r)

ReqApiFeed ==
    \E u \in Sessions, page \in 1..MaxPage, tie \in {"asc", "desc"} :
        LET r == api_feed(db, u, page, tie)
        IN Served([Event("api_feed", u, 0, None, None, r) EXCEPT !.page = page], r)

(***************************************************************************)
(* SeqSpec: the handlers that write posts, likes, comments and follows,    *)
(* one request at a time.                                                  *)
(***************************************************************************)
SeqNext ==
    \/ ReqRegister({Anon}, {"bob"}, {"b@x.com"})
    \/ ReqNewPost({"hello"}, Contents, {NoFile}, MaxPostId)
    \/ ReqDeletePost
    \/ ReqLikePost
    \/ ReqAddComment
    \/ ReqFollowUser
    \/ ReqUnfollowUser

SeqSpec == Init /\ [][SeqNext]_vars

(***************************************************************************)
(* FormSpec: the new_post form with every field sent, sent empty or        *)
(* absent, one request at a time.                                          *)
(***************************************************************************)
FormNext ==
    \/ ReqRegister({Anon} \cup Sessions, Usernames, Emails)
    \/ ReqNewPost(Titles, Contents \cup {None}, Files, MaxPostId)
    \/ ReqDeletePost

FormSpec == Init /\ [][FormNext]_vars

(***************************************************************************)
(* Requests of concurrent workers.  A handler that reads before it writes  *)
(* runs in two steps: Begin does its reads and, when they end the request, *)
(* responds; otherwise the worker holds what it read, and Commit does the  *)
(* write against the database as it is by then.                            *)
(***************************************************************************)
Completed(w, e, r) ==
    /\ db' = r.db
    /\ ev' = e
    /\ hist' = [pre |-> db, prev |-> NoEv, pre2 |-> EmptyDb]
    /\ reqs' = [reqs EXCEPT ![w] = Idle]
    /\ UNCHANGED now

Held(w, req) ==
    /\ reqs' = [reqs EXCEPT ![w] = req]
    /\ UNCHANGED <<db, now, ev, hist>>

\* the workers are interchangeable: the second takes a request when the first is busy
Free(w) == reqs[w] = Idle /\ \A v \in Workers : v < w => reqs[v] # Idle

BeginLikePost(w) ==
    \E u \in Sessions, post_id \in 1..MaxPostId :
        LET r == like_post_read(db, u, post_id)
        IN /\ Free(w)
           /\ IF r \in {"found", "absent"}
              THEN Held(w, [Idle EXCEPT !.op = "like_post", !.user = u, !.post = post_id,
                                        !.found = (r = "found")])
              ELSE Completed(w, Event("like_post", u, post_id, None, None, Res(db, r)),
                             Res(db, r))

CommitLikePost(w) ==
    LET q == reqs[w]
        r == like_post_write(db, q.user, q.post, q.found)
    IN /\ q.op = "like_post"
       /\ Completed(w, Event("like_post", q.user, q.post, None, None, r), r)

BeginFollowUser(w) ==
    \E u \in Sessions, username \in Usernames :
        LET r == follow_user_read(db, u, username)
        IN /\ Free(w)
           /\ IF r = "proceed"
              THEN Held(w, [Idle EXCEPT !.op = "follow_user", !.user = u,
                                        !.post = UserByName(db, username),
                                        !.name = username])
              ELSE Completed(w, Event("follow_user", u, 0, username, None, Res(db, r)),
                             Res(db, r))

CommitFollowUser(w) ==
    LET q == reqs[w]
        r == follow_user_write(db, q.user, q.post)
    IN /\ q.op = "follow_user"
       /\ Completed(w, Event("follow_user", q.user, 0, q.name, None, r), r)

BeginRegister(w, usernames, emails) ==
    \E u \in {Anon} \cup Sessions, username \in usernames, email \in emails,
       confirm_password \in Passwords :
        LET r == register_read(db, u, username, email, "pw1", confirm_password)
            e == [Event("register", u, 0, username, email, Res(db, r))
                      EXCEPT !.match = (confirm_password = "pw1")]
        IN /\ Free(w)
           /\ Len(db.users) + Cardinality({v \in Workers : reqs[v].op = "register"}) < MaxUsers
           /\ IF r = "proceed"
              THEN Held(w, [Idle EXCEPT !.op = "register", !.name = username,
                                        !.email = email])
              ELSE Completed(w, e, Res(db, r))

CommitRegister(w) ==
    LET q == reqs[w]
        r == register_write(db, q.name, q.email)
    IN /\ q.op = "register"
       /\ Completed(w, Event("register", Anon, 0, q.name, q.email, r), r)

(***************************************************************************)
(* Spec: like_post and follow_user requests of two concurrent workers,     *)
(* among requests that register users, create posts and unfollow.          *)
(***************************************************************************)
Next ==
    \/ ReqRegister({Anon}, {"bob"}, {"b@x.com"})
    \/ ReqNewPost({"hello"}, {"world"}, {NoFile}, MaxPostId)
    \/ ReqUnfollowUser
    \/ \E w \in Workers : BeginLikePost(w)
    \/ \E w \in Workers : CommitLikePost(w)
    \/ \E w \in Workers : BeginFollowUser(w)
    \/ \E w \in Workers : CommitFollowUser(w)

Spec == Init /\ [][Next]_vars

(***************************************************************************)
(* RegSpec: register and update_profile requests of concurrent workers.    *)
(***************************************************************************)
RegNext ==
    \/ \E w \in Workers : BeginRegister(w, Usernames \cup {"carol", None},
                                        Emails \cup {"c@x.com"})
    \/ \E w \in Workers : CommitRegister(w)
    \/ ReqUpdateProfile(Usernames \cup {"carol", None})

RegSpec == Init /\ [][RegNext]_vars

(***************************************************************************)
(* FeedSpec: the feed of a database that holds FeedBase posts of two       *)
(* users, to which up to FeedExtra posts are added while the clock may or  *)
(* may not advance between two of them.                                    *)
(***************************************************************************)
FeedInit ==
    /\ db = [initialize_database EXCEPT
               !.users = Append(@, [username |-> "bob", email |-> "b@x.com"]),
               !.posts = {[id |-> i, user_id |-> 1 + (i % 2), title |-> "hello",
                           content |-> "world", image |-> NoFile, created_at |-> i]
                          : i \in 1..FeedBase}]
    /\ now = FeedBase
    /\ reqs = [w \in Workers |-> Idle]
    /\ ev = NoEv
    /\ hist = NoHist

\* datetime.utcnow advances
Tick ==
    /\ now < FeedBase + FeedExtra
    /\ \E p \in db.posts : p.created_at = now
    /\ now' = now + 1
    /\ UNCHANGED <<db, reqs, ev, hist>>

FeedNext ==
    \/ ReqNewPost({"hello"}, {"world"}, {NoFile}, FeedBase + FeedExtra)
    \/ ReqFollowUser
    \/ ReqUnfollowUser
    \/ ReqHome
    \/ ReqApiFeed
    \/ Tick

FeedSpec == FeedInit /\ [][FeedNext]_vars

(***************************************************************************)
(* The claims.  In SeqSpec, FormSpec and FeedSpec hist.pre is the database *)
(* the last request (ev) started from; in Spec and RegSpec it is the       *)
(* database before the step that completed it.                             *)
(***************************************************************************)

\* C1: under any interleaving of like_post and follow_user requests, duplicate
\* requests of one user included, no (user, post) pair has two Like rows and no
\* (follower, followed) pair has two Follow rows.
C1_NoDuplicateRows ==
    /\ \A r \in BagToSet(db.likes) : CopiesIn(r, db.likes) = 1
    /\ \A r \in BagToSet(db.follows) : CopiesIn(r, db.follows) = 1

\* two follow_user requests of one user for one target both passed the
\* is_following test, and the second commit has run
C1_Witness ==
    /\ ev.op = "follow_user"
    /\ ev.out = "IntegrityError"
    /\ is_following(db, ev.user, UserByName(db, ev.name))

\* C6: the like_post or follow_user request that loses a race on the
\* uniqueness constraint ends as a no-op: it never ends in the unhandled
\* IntegrityError of the commit.
C6_RaceIsBenign ==
    ev.op \in {"like_post", "follow_user"} => ev.out # "IntegrityError"

LikePair ==
    /\ ev.op = "like_post" /\ ev.out = "ok"
    /\ hist.prev.op = "like_post" /\ hist.prev.out = "ok"

\* C2: like_post twice in a row by one user on one post: the user's liked-state
\* and the post's like count are back at their values before the first; the
\* first response reports the flipped liked-state, the second the original.
C2_LikeTwice ==
    LikePair =>
        LET was == BagIn(LikeRow(ev.user, ev.post), hist.pre2.likes)
        IN /\ BagIn(LikeRow(ev.user, ev.post), db.likes) = was
           /\ like_count(db, ev.post) = like_count(hist.pre2, ev.post)
           /\ hist.prev.liked = ~was
           /\ ev.liked = was
           /\ ev.count = like_count(hist.pre2, ev.post)

\* a like and then the unlike, on a post another user likes too
C2_Witness == LikePair /\ hist.prev.liked /\ ~ev.liked /\ ev.count = 1

\* the last two requests are follow_user(U) and unfollow_user(U) by one user,
\* U a registered user
FollowPair ==
    /\ ev.op = "unfollow_user"
    /\ hist.prev.op = "follow_user"
    /\ hist.prev.out # "not_found"

\* C3, as claimed: follow_user(U) and then unfollow_user(U) leave the Follow
\* edges as they were before the two calls, from every starting state.
C3_FollowUnfollow_AsClaimed == FollowPair => db.follows = hist.pre2.follows

\* C3, amended: follow_user(U) and then unfollow_user(U) leave the Follow
\* edges as they were before the two calls when the acting user did not
\* follow U before them.
C3_FollowUnfollow ==
    (FollowPair /\ ~is_following(hist.pre2, ev.user, UserByName(hist.pre2, ev.name)))
        => db.follows = hist.pre2.follows

\* an edge was created and removed again, next to another edge
C3_Witness ==
    /\ FollowPair
    /\ hist.prev.out = "followed"
    /\ ev.out = "unfollowed"
    /\ db.follows # EmptyBag

\* C4: delete_post by a user who does not own the post is rejected and leaves
\* the post, its likes and its comments (the whole database) as they were; a
\* Post row goes only by a delete_post of its owner.
C4_OwnerOnlyDelete ==
    /\ (/\ ev.op = "delete_post"
        /\ ev.post \in PostIds(hist.pre)
        /\ PostById(hist.pre, ev.post).user_id # ev.user)
       => (ev.out = "forbidden" /\ db = hist.pre)
    /\ \A p \in hist.pre.posts :
          p \notin db.posts =>
              (ev.op = "delete_post" /\ ev.post = p.id /\ ev.user = p.user_id)

\* a user was refused the deletion of another user's post, which has a like
\* and a comment
C4_Witness ==
    /\ ev.op = "delete_post"
    /\ ev.out = "forbidden"
    /\ like_count(db, ev.post) > 0
    /\ comment_count(db, ev.post) > 0

\* C5: after a delete_post that deleted post P no Like and no Comment row
\* refers to P, and after any sequence of requests every Like and every
\* Comment row refers to a post that exists.
C5_Cascade ==
    /\ (ev.op = "delete_post" /\ ev.out = "deleted")
       => (like_count(db, ev.post) = 0 /\ comment_count(db, ev.post) = 0)
    /\ \A r \in BagToSet(db.likes) : r.post_id \in PostIds(db)
    /\ \A r \in BagToSet(db.comments) : r.post_id \in PostIds(db)

\* a post that had a like and a comment was deleted
C5_Witness ==
    /\ ev.op = "delete_post"
    /\ ev.out = "deleted"
    /\ like_count(hist.pre, ev.post) > 0
    /\ comment_count(hist.pre, ev.post) > 0

\* C7: a request that ends in a validation error leaves every table as it
\* was: new_post with empty content, follow_user of oneself (no Follow row ever
\* has follower = followed), register with passwords that differ, add_comment
\* with empty content; and each of these requests does end in that error.
C7_ValidationNoChange ==
    /\ ev.out \in {"empty_content", "password_mismatch", "self_follow"} => db = hist.pre
    /\ (ev.op = "new_post" /\ Falsy(ev.arg))
       => (ev.out = "empty_content" /\ db.posts = hist.pre.posts)
    /\ (ev.op = "follow_user" /\ UserByName(hist.pre, ev.name) = ev.user)
       => (ev.out = "self_follow" /\ db.follows = hist.pre.follows)
    /\ \A r \in BagToSet(db.follows) : r.follower_id # r.followed_id
    /\ (ev.op = "register" /\ ev.user = Anon /\ ~ev.match)
       => (ev.out = "password_mismatch" /\ db.users = hist.pre.users)
    /\ (ev.op = "add_comment" /\ ev.post \in PostIds(hist.pre) /\ Falsy(ev.arg))
       => (ev.out = "empty_content" /\ db.comments = hist.pre.comments)

\* a user who follows another was refused a follow of themselves
C7_Witness ==
    /\ ev.op = "follow_user"
    /\ ev.out = "self_follow"
    /\ db.follows # EmptyBag

\* C10: new_post with non-empty content persists exactly one new Post row
\* owned by the acting user, whether or not a title or an image is sent, the
\* title field being absent included.
C10_TitleOptional ==
    (ev.op = "new_post" /\ ~Falsy(ev.arg)) =>
        /\ ev.out = "created"
        /\ \E row \in db.posts :
              /\ row \notin hist.pre.posts
              /\ row.user_id = ev.user
              /\ db.posts = hist.pre.posts \cup {row}

\* the posts of user u and of the users u follows
Eligible(d, u) == {p.id : p \in {q \in d.posts : q.user_id = u \/ is_following(d, u, q.user_id)}}

Range(items) == {items[i] : i \in 1..Len(items)}

\* items lists posts without repetition, newest first
NewestFirst(d, items) ==
    \A i, j \in 1..Len(items) :
        i < j => /\ items[i] # items[j]
                 /\ PostById(d, items[i]).created_at >= PostById(d, items[j]).created_at

\* C8, as claimed: the feed of home and of api_feed lists exactly the posts of
\* the user and of the users followed, none missing, none extra, none twice,
\* newest first.
C8_Feed_AsClaimed ==
    (ev.op \in {"home", "api_feed"} /\ ev.out = "ok") =>
        (Range(ev.items) = Eligible(db, ev.user) /\ NewestFirst(db, ev.items))

\* items is the stretch of `skip` + 1 .. `skip` + per_page of an ordering of the
\* posts E by created_at, newest first
PageOf(d, E, items, skip) ==
    LET rest == E \ Range(items)
        at(id) == PostById(d, id).created_at
        n == Len(items)
    IN /\ Range(items) \subseteq E
       /\ NewestFirst(d, items)
       /\ n = IF Cardinality(E) - skip < per_page THEN Cardinality(E) - skip ELSE per_page
       /\ n > 0 =>
            /\ \A id \in rest : at(id) >= at(items[1]) \/ at(id) <= at(items[n])
            /\ Cardinality({id \in rest : at(id) > at(items[n])}) <= skip
            /\ skip <= Cardinality({id \in rest : at(id) >= at(items[1])})

\* C8, amended: home lists exactly the posts of the user and of the users
\* followed, none twice, newest first; api_feed lists page `page` of that
\* list, at most per_page posts of it, and is a 404 for a page past its end.
C8_Feed ==
    /\ (ev.op = "home" /\ ev.out = "ok")
       => (Range(ev.items) = Eligible(db, ev.user) /\ NewestFirst(db, ev.items))
    /\ ev.op = "api_feed"
       => LET skip == (ev.page - 1) * per_page
          IN IF ev.page > 1 /\ Cardinality(Eligible(db, ev.user)) <= skip
             THEN ev.out = "not_found"
             ELSE /\ ev.out = "ok"
                  /\ PageOf(db, Eligible(db, ev.user), ev.items, skip)

\* the second page of a feed of more than per_page posts
C8_Witness ==
    /\ ev.op = "api_feed"
    /\ ev.out = "ok"
    /\ ev.page = 2
    /\ Len(ev.items) > 0

====
